---- MODULE Spec2Model ----
(***************************************************************************)
(* Model of relay.go (package nostr): one Relay with its Dispatcher        *)
(* goroutine, one Publish call, one Auth call and one QuerySync call, the  *)
(* subscription table, the okCallbacks registry and the broadcast streams. *)
(* Subscription.Fire and Subscription.Unsub live in a file that is not     *)
(* part of the sources at hand and are modelled after spec.md section 4.3. *)
(***************************************************************************)
EXTENDS Integers, Sequences, FiniteSets

(* ----------------------------- bounds ---------------------------------- *)

\* inbound frames the Dispatcher reads in one behaviour, with one call
MaxFrames == 3

\* inbound frames the Dispatcher reads in one behaviour, with two calls
MaxFramesCalls == 2
MaxFramesBoth == 1
MaxFramesConnect == 1
\* heartbeat intervals that elapse after Connect has returned
MaxTicks == 2

(* --------------------------- program constants ------------------------- *)

PublishStatusSent == 0
PublishStatusFailed == 0 - 1
PublishStatusSucceeded == 1

\* capacity of the EndOfStoredEvents channel: make(chan struct{}, 1)
EoseCap == 1

(* ------------------------------ universe ------------------------------- *)

Calls == {"P", "A", "Q"}          \* the Publish, Auth and QuerySync calls
Subs == {"P", "Q"}                \* the Subscription objects they create
None == "none"

\* event.ID of the event handed to Publish and of the one handed to Auth
EventID(c) == IF c = "P" THEN "p" ELSE "a"

\* errors: nil, the transport's write error, fmt.Errorf("msg: %s", msg)
NilErr == [kind |-> "nil", text |-> ""]
WriteErr == [kind |-> "write", text |-> ""]
MsgErr(m) == [kind |-> "msg", text |-> m]

\* Subscription.GetID: the counter rendered as a string
GetID(n) == IF n = 0 THEN "0" ELSE IF n = 1 THEN "1" ELSE "2"

\* Filters.Match for the filters the calls subscribe with: Publish uses
\* Filter{IDs: [event.ID]}, QuerySync is called with Filter{IDs: ["x"]}
FilterIDs(s) == IF s = "P" THEN {EventID("P")} ELSE {"x"}
Match(s, e) == e.id \in FilterIDs(s)

(* ------------------------- inbound frames ------------------------------ *)

\* decoded event payloads: identity and whether CheckSignature succeeds
Payloads ==
  { [id |-> "p", sig |-> TRUE], [id |-> "x", sig |-> TRUE], [id |-> "x", sig |-> FALSE] }

TextFrame(a) == [err |-> FALSE, typ |-> "text", head |-> "[", json |-> TRUE, arr |-> a]

\* what ReadMessage can return: a read error, a ping, a non-text frame, an
\* empty frame, a frame not starting with '[', an undecodable array, and
\* decodable arrays
Frames ==
  { [err |-> TRUE, typ |-> "text", head |-> "", json |-> FALSE, arr |-> <<>>],
    [err |-> FALSE, typ |-> "ping", head |-> "", json |-> FALSE, arr |-> <<>>],
    [err |-> FALSE, typ |-> "binary", head |-> "[", json |-> TRUE, arr |-> <<"NOTICE", "t">>],
    [err |-> FALSE, typ |-> "text", head |-> "", json |-> FALSE, arr |-> <<>>],
    [err |-> FALSE, typ |-> "text", head |-> "x", json |-> FALSE, arr |-> <<>>],
    [err |-> FALSE, typ |-> "text", head |-> "[", json |-> FALSE, arr |-> <<>>] }
  \cup { TextFrame(a) : a \in { <<>>, <<"EVENT">>, <<"FOO", "0">>, <<"EVENT", "0">>,
                               <<"OK", "p">>, <<"NOTICE", "t">>, <<"NOTICE", "u">>,
                               <<"AUTH", "c">> } }
  \cup { TextFrame(<<"EVENT", id, e>>) : id \in {"0", "1"}, e \in Payloads }
  \cup { TextFrame(<<"EVENT", "9", [id |-> "x", sig |-> TRUE]>>) }
  \cup { TextFrame(<<"EOSE", id>>) : id \in {"0", "1", "9"} }
  \cup { TextFrame(<<"OK", id, TRUE>>) : id \in {"p", "a", "z"} }
  \cup { TextFrame(<<"OK", id, FALSE, "m">>) : id \in {"p", "a"} }
  \cup { TextFrame(<<"OK", "a", FALSE>>) }

(* ------------------------------- state --------------------------------- *)

VARIABLES
  AssumeValid,            \* Relay.AssumeValid
  subscriptions,          \* Relay.subscriptions: id -> Subscription or None
  okCallbacks,            \* Relay.okCallbacks: event id -> the call whose closure is stored
  subscriptionIdCounter,  \* the package-level counter
  tasks,                  \* goroutines blocked on Notices / Challenges / Errors
  counter,                \* Subscription.counter
  stopped,                \* Subscription.stopped
  mutex,                  \* Subscription.mutex is held (by the Dispatcher)
  emitEose,               \* Subscription.emitEose (sync.Once) has run
  EndOfStoredEvents,      \* values buffered in Subscription.EndOfStoredEvents
  watch,                  \* the goroutine that ends the subscription with its lifetime
  pc,                     \* position of each call
  status,                 \* the status variable of Publish / Auth
  err,                    \* the err variable of Publish / Auth
  ret,                    \* what each call returned
  ctx,                    \* each call's context: live, or why it is done
  current,                \* PrepareSubscription's local `current`
  events,                 \* QuerySync's local `events`
  dpc,                    \* position of the Dispatcher
  cur,                    \* subscription and event the Dispatcher is delivering
  nread,                  \* frames read so far
  budget,                 \* frames the transport delivers in this behaviour
  lastCmd,                \* how the last frame read was classified
  cbLog,                  \* history: invocations of each call's okCallback
  recv,                   \* history: events received from each Events stream
  routed,                 \* history: EVENT frames the Dispatcher routed to each subscription
  eoseSent,               \* history: values ever placed on EndOfStoredEvents
  eoseFrames,             \* history: EOSE frames processed for each subscription
  cpc,                    \* position of the Connect call
  connRet,                \* what Connect returned
  cctx,                   \* the context Connect runs under: live or expired
  established,            \* the transport has a connection to the relay
  connCtx,                \* Relay.ConnectionContext: live or cancelled
  ticker,                 \* the heartbeat's ticker: none, running or stopped
  tickC,                  \* ticks buffered in ticker.C
  hb,                     \* the heartbeat goroutine: none, waiting or exited
  pings,                  \* history: pings the heartbeat has written
  late,                   \* history: intervals elapsed since Connect returned nil
  closed,                 \* the transport was closed for good (Relay.Close)
  got,                    \* history: what was received from each broadcast stream
  unguarded               \* history: places that used status without holding mu

relayVars == <<AssumeValid, subscriptions, okCallbacks, subscriptionIdCounter, tasks>>
subVars == <<counter, stopped, mutex, emitEose, EndOfStoredEvents, watch>>
callVars == <<pc, status, err, ret, ctx, current, events>>
dispVars == <<dpc, cur, nread, budget, lastCmd>>
histVars == <<cbLog, recv, routed, eoseSent, eoseFrames>>
connVars == <<cpc, connRet, cctx, established, connCtx, ticker, tickC, hb, pings, late, closed>>
auxVars == <<connVars, got, unguarded>>
vars == <<relayVars, subVars, callVars, dispVars, histVars, auxVars>>

Streams == {"Notices", "Challenges", "Errors"}

AllIds == {"0", "1", "2", "9"}
AllEventIds == {"p", "a", "z"}
NoCur == [sub |-> None, ev |-> [id |-> "", sig |-> FALSE, ptr |-> 0]]
NoRet == [status |-> 0, err |-> NilErr, set |-> FALSE]

\* the state of the calls, subscriptions and histories before any call
InitRelay(frames) ==
  /\ budget = frames
  /\ AssumeValid \in BOOLEAN
  /\ subscriptions = [i \in AllIds |-> None]
  /\ okCallbacks = [i \in AllEventIds |-> None]
  /\ subscriptionIdCounter = 0
  /\ tasks = {}
  /\ counter = [s \in Subs |-> 0]
  /\ stopped = [s \in Subs |-> FALSE]
  /\ mutex = [s \in Subs |-> FALSE]
  /\ emitEose = [s \in Subs |-> FALSE]
  /\ EndOfStoredEvents = [s \in Subs |-> 0]
  /\ watch = [s \in Subs |-> "none"]
  /\ pc = [c \in Calls |-> "idle"]
  /\ status = [c \in {"P", "A"} |-> 0]
  /\ err = [c \in {"P", "A"} |-> NilErr]
  /\ ret = [c \in {"P", "A"} |-> NoRet]
  /\ ctx = [c \in Calls |-> "live"]
  /\ current = [c \in Calls |-> 0]
  /\ events = <<>>
  /\ cur = NoCur
  /\ nread = 0
  /\ lastCmd = "none"
  /\ cbLog = [c \in {"P", "A"} |-> <<>>]
  /\ recv = [s \in Subs |-> <<>>]
  /\ routed = [s \in Subs |-> <<>>]
  /\ eoseSent = [s \in Subs |-> 0]
  /\ eoseFrames = [s \in Subs |-> 0]
  /\ got = [st \in Streams |-> <<>>]
  /\ unguarded = {}

\* Connect has returned nil: the Dispatcher and the heartbeat run, and the
\* deferred ticker.Stop() has run
InitWith(frames) ==
  /\ InitRelay(frames)
  /\ dpc = "read"
  /\ cpc = "done"
  /\ connRet = "nil"
  /\ cctx = "live"
  /\ established = TRUE
  /\ connCtx = "live"
  /\ ticker = "stopped"
  /\ tickC = 0
  /\ hb = "waiting"
  /\ pings = 0
  /\ late = 0
  /\ closed = FALSE

\* a Relay on which Connect has not been called
InitConnect ==
  /\ InitRelay(MaxFramesConnect)
  /\ dpc = "off"
  /\ cpc = "idle"
  /\ connRet = "none"
  /\ cctx = "live"
  /\ established = FALSE
  /\ connCtx = "none"
  /\ ticker = "none"
  /\ tickC = 0
  /\ hb = "none"
  /\ pings = 0
  /\ late = 0
  /\ closed = FALSE

Init == InitWith(MaxFrames)
InitBoth == InitWith(MaxFramesBoth)
InitCalls == InitWith(MaxFramesCalls)

(* --------------------------- the Dispatcher ---------------------------- *)

\* s.MapOf.Load on the subscription table
Load(subId) == subscriptions[subId]

\* the frame is skipped before it is decoded (line 136)
NotRoutable(f) == f.typ # "text" \/ f.head = "" \/ f.head # "["

\* the frame is skipped after decoding (lines 141-148)
Undecodable(f) == ~f.json \/ Len(f.arr) < 2

\* the EVENT case checked against 2 elements, like EOSE
EventTooShortBy2(arr) == Len(arr) < 2

\* the length check of the EVENT case (line 167)
EventTooShort(arr) == Len(arr) < 3

\* the length check of the OK case (line 221)
OkTooShort(arr) == Len(arr) < 3

\* a Dispatcher that does not look at the stopped flag
IsStoppedNever(s) == FALSE

\* subscription.stopped as read under the mutex (line 190)
IsStopped(s) == stopped[s]

\* a Dispatcher that trusts every relay
SigAcceptedBlindly(e) == TRUE

\* the signature check, skipped for AssumeValid relays (lines 195-204)
SigAccepted(e) == AssumeValid \/ e.sig

\* a plain call in place of sync.Once.Do
OnceDoAlways(done) == TRUE

\* sync.Once.Do runs its function only the first time (line 216)
OnceDo(done) == ~done

\* the status the okCallback assigns (lines 273-278 and 343-348)
OkStatus(ok) == IF ok THEN PublishStatusSucceeded ELSE PublishStatusFailed

\* a cancel() that was forgotten
NotCancelled(c, why) == ctx

\* cancel() of the call's context: a context already done stays as it is
Cancelled(c, why) == IF ctx[c] = "live" THEN [ctx EXCEPT ![c] = why] ELSE ctx

\* the frame is skipped with `continue`: nothing but the Dispatcher moves on
Skip(cmd) ==
  /\ dpc' = "read"
  /\ cur' = NoCur
  /\ lastCmd' = cmd
  /\ UNCHANGED <<relayVars, subVars, callVars, histVars>>

\* go func() { stream <- val }(): a goroutine blocked on the unbuffered stream
Spawn(stream, val, cmd) ==
  /\ tasks' = tasks \cup {[stream |-> stream, val |-> val, idx |-> nread + 1]}
  /\ dpc' = "read"
  /\ cur' = NoCur
  /\ lastCmd' = cmd
  /\ UNCHANGED <<AssumeValid, subscriptions, okCallbacks, subscriptionIdCounter>>
  /\ UNCHANGED <<subVars, callVars, histVars>>

\* case "EVENT" up to the filter check (lines 166-186)
DispEVENT(arr) ==
  IF EventTooShort(arr) THEN Skip("drop")
  ELSE IF Load(arr[2]) = None THEN Skip("EVENT")
  ELSE IF Len(arr) < 3
    THEN \* jsonMessage[2] is out of range: the Dispatcher goroutine panics
         /\ dpc' = "panic"
         /\ cur' = NoCur
         /\ lastCmd' = "EVENT"
         /\ UNCHANGED <<relayVars, subVars, callVars, histVars>>
    ELSE LET s == Load(arr[2])
             e == [id |-> arr[3].id, sig |-> arr[3].sig, ptr |-> nread + 1]
         IN /\ routed' = [routed EXCEPT ![s] = Append(@, e)]
            /\ IF Match(s, e)
                 THEN dpc' = "lock" /\ cur' = [sub |-> s, ev |-> e]
                 ELSE dpc' = "read" /\ cur' = NoCur
            /\ lastCmd' = "EVENT"
            /\ UNCHANGED <<relayVars, subVars, callVars>>
            /\ UNCHANGED <<cbLog, recv, eoseSent, eoseFrames>>

\* case "EOSE" (lines 209-219)
DispEOSE(arr) ==
  IF Len(arr) < 2 \/ Load(arr[2]) = None THEN Skip("EOSE")
  ELSE LET s == Load(arr[2]) IN
    /\ eoseFrames' = [eoseFrames EXCEPT ![s] = @ + 1]
    /\ lastCmd' = "EOSE"
    /\ cur' = NoCur
    /\ IF OnceDo(emitEose[s])
         THEN /\ emitEose' = [emitEose EXCEPT ![s] = TRUE]
              /\ IF EndOfStoredEvents[s] < EoseCap
                   THEN /\ EndOfStoredEvents' = [EndOfStoredEvents EXCEPT ![s] = @ + 1]
                        /\ eoseSent' = [eoseSent EXCEPT ![s] = @ + 1]
                        /\ dpc' = "read"
                   ELSE \* the buffer is full: the send blocks
                        /\ dpc' = "eose"
                        /\ UNCHANGED <<EndOfStoredEvents, eoseSent>>
         ELSE /\ dpc' = "read"
              /\ UNCHANGED <<emitEose, EndOfStoredEvents, eoseSent>>
    /\ UNCHANGED <<relayVars, callVars, counter, stopped, mutex, watch>>
    /\ UNCHANGED <<cbLog, recv, routed>>

\* Publish's okCallback, run by the Dispatcher with mu held (lines 270-280)
PublishOkCallback(ok, msg) ==
  /\ status' = [status EXCEPT !["P"] = OkStatus(ok)]
  /\ err' = IF ok THEN err ELSE [err EXCEPT !["P"] = MsgErr(msg)]
  /\ ctx' = Cancelled("P", "ok")
  /\ cbLog' = [cbLog EXCEPT !["P"] = Append(@, [ok |-> ok, msg |-> msg, at |-> pc["P"]])]

\* Auth's okCallback, run by the Dispatcher (lines 341-351)
AuthOkCallback(ok, msg) ==
  /\ status' = [status EXCEPT !["A"] = OkStatus(ok)]
  /\ err' = IF ok THEN err ELSE [err EXCEPT !["A"] = MsgErr(msg)]
  /\ ctx' = Cancelled("A", "ok")
  /\ cbLog' = [cbLog EXCEPT !["A"] = Append(@, [ok |-> ok, msg |-> msg, at |-> pc["A"]])]

\* case "OK" (lines 220-238)
DispOK(arr) ==
  IF OkTooShort(arr) THEN Skip("drop")
  ELSE IF okCallbacks[arr[2]] = None THEN Skip("OK")
  ELSE LET msg == IF Len(arr) > 3 THEN arr[4] ELSE "" IN
    /\ IF okCallbacks[arr[2]] = "P"
         THEN PublishOkCallback(arr[3], msg)
         ELSE AuthOkCallback(arr[3], msg)
    /\ dpc' = "read"
    /\ cur' = NoCur
    /\ lastCmd' = "OK"
    /\ UNCHANGED <<relayVars, subVars, pc, ret, current, events>>
    /\ UNCHANGED <<recv, routed, eoseSent, eoseFrames>>

\* the switch on the command tag (lines 150-239)
Route(arr) ==
  CASE arr[1] = "NOTICE" -> Spawn("Notices", arr[2], "NOTICE")
    [] arr[1] = "AUTH" -> Spawn("Challenges", arr[2], "AUTH")
    [] arr[1] = "EVENT" -> DispEVENT(arr)
    [] arr[1] = "EOSE" -> DispEOSE(arr)
    [] arr[1] = "OK" -> DispOK(arr)
    [] OTHER -> Skip("drop")

\* one iteration of the read loop, up to its first blocking point (lines
\* 122-239). A closed transport returns an error from every ReadMessage
DispRead(f) ==
  /\ dpc = "read"
  /\ closed => f.err
  /\ nread < budget
  /\ nread' = nread + 1
  /\ budget' = budget
  /\ IF f.err THEN Spawn("Errors", "err", "err")
     ELSE IF f.typ = "ping" THEN Skip("ping")
     ELSE IF NotRoutable(f) \/ Undecodable(f) THEN Skip("drop")
     ELSE Route(f.arr)
  /\ UNCHANGED auxVars

ReadFrame == \E f \in Frames : DispRead(f)

\* subscription.mutex.Lock() and the checks made under it (lines 188-204)
DispLock ==
  /\ dpc = "lock"
  /\ ~mutex[cur.sub]
  /\ IF IsStopped(cur.sub) \/ ~SigAccepted(cur.ev)
       THEN dpc' = "read" /\ cur' = NoCur /\ UNCHANGED mutex
       ELSE dpc' = "send" /\ cur' = cur /\ mutex' = [mutex EXCEPT ![cur.sub] = TRUE]
  /\ UNCHANGED <<relayVars, callVars, histVars, nread, budget, lastCmd>>
  /\ UNCHANGED <<counter, stopped, emitEose, EndOfStoredEvents, watch>>
  /\ UNCHANGED auxVars

\* subscription.Events <- &event completes with a receiver, then the deferred
\* Unlock runs (lines 189, 206); the receiver's action conjoins this
Delivered(s) ==
  /\ dpc = "send"
  /\ cur.sub = s
  /\ recv' = [recv EXCEPT ![s] = Append(@, cur.ev)]
  /\ mutex' = [mutex EXCEPT ![s] = FALSE]
  /\ dpc' = "read"
  /\ cur' = NoCur
  /\ UNCHANGED <<nread, budget, lastCmd>>

\* an application goroutine receives from Notices, Challenges or Errors
Consume ==
  /\ \E t \in tasks :
       /\ tasks' = tasks \ {t}
       /\ got' = [got EXCEPT ![t.stream] = Append(@, [val |-> t.val, idx |-> t.idx])]
  /\ UNCHANGED <<connVars, unguarded>>
  /\ UNCHANGED <<AssumeValid, subscriptions, okCallbacks, subscriptionIdCounter>>
  /\ UNCHANGED <<subVars, callVars, dispVars, histVars>>

(* ------------------------- subscription engine ------------------------- *)

\* r.ConnectionContext.Done() is ready: cancel() is called at line 81, and
\* at line 242 behind a `for` loop that has no break or return
ConnectionContextDone == connCtx = "cancelled"

\* the lifetime a subscription was prepared with is over: Publish subscribes
\* with its own cancellable ctx (line 289); QuerySync subscribes with the
\* caller's ctx, before it adds the default timeout (lines 390-397)
LifetimeDone(s) == IF s = "P" THEN ctx["P"] # "live" ELSE ctx["Q"] = "cancelled"

\* PrepareSubscription: current := subscriptionIdCounter (line 418)
PrepareRead(c) ==
  /\ pc[c] = "prep"
  /\ current' = [current EXCEPT ![c] = subscriptionIdCounter]
  /\ pc' = [pc EXCEPT ![c] = "incr"]
  /\ UNCHANGED <<relayVars, subVars, dispVars, histVars, status, err, ret, ctx, events>>
  /\ UNCHANGED auxVars

\* PrepareSubscription: subscriptionIdCounter++ and the new Subscription
\* (lines 419-431). The counter is a plain package variable: the increment
\* adds one to a fresh read of it or to the value line 418 read
PrepareIncr(c) ==
  /\ pc[c] = "incr"
  /\ subscriptionIdCounter' \in {subscriptionIdCounter + 1, current[c] + 1}
  /\ counter' = [counter EXCEPT ![c] = current[c]]
  /\ pc' = [pc EXCEPT ![c] = "fire"]
  /\ UNCHANGED <<AssumeValid, subscriptions, okCallbacks, tasks>>
  /\ UNCHANGED <<stopped, mutex, emitEose, EndOfStoredEvents, watch>>
  /\ UNCHANGED <<dispVars, histVars, status, err, ret, ctx, current, events>>
  /\ UNCHANGED auxVars

\* Subscription.Fire: register under the identity, send REQ, and end the
\* subscription when its lifetime is cancelled
Fire(c) ==
  /\ pc[c] = "fire"
  /\ subscriptions' = [subscriptions EXCEPT ![GetID(counter[c])] = c]
  /\ watch' = [watch EXCEPT ![c] = "waiting"]
  /\ pc' = [pc EXCEPT ![c] = IF c = "P" THEN "wait" ELSE "loop"]
  /\ UNCHANGED <<AssumeValid, okCallbacks, subscriptionIdCounter, tasks>>
  /\ UNCHANGED <<counter, stopped, mutex, emitEose, EndOfStoredEvents>>
  /\ UNCHANGED <<dispVars, histVars, status, err, ret, ctx, current, events>>
  /\ UNCHANGED auxVars

\* Subscription.Unsub, with the subscription's mutex held throughout: send
\* CLOSE, set stopped (which closes Events), remove the table entry
Unsub(s) ==
  /\ ~mutex[s]
  /\ stopped' = [stopped EXCEPT ![s] = TRUE]
  /\ subscriptions' = [subscriptions EXCEPT ![GetID(counter[s])] = None]

\* the subscription's lifetime is cancelled: it is unsubscribed
LifetimeUnsub(s) ==
  /\ watch[s] = "waiting"
  /\ LifetimeDone(s)
  /\ Unsub(s)
  /\ watch' = [watch EXCEPT ![s] = "done"]
  /\ UNCHANGED <<AssumeValid, okCallbacks, subscriptionIdCounter, tasks>>
  /\ UNCHANGED <<counter, mutex, emitEose, EndOfStoredEvents>>
  /\ UNCHANGED <<callVars, dispVars, histVars>>
  /\ UNCHANGED auxVars

(* ------------------------------ contexts ------------------------------- *)

InFlight(c) == pc[c] \notin {"idle", "done"}

\* the deadline of the call's context elapses (the caller's, or the default
\* of lines 260, 331, 396)
Deadline(c) ==
  /\ InFlight(c)
  /\ ctx[c] = "live"
  /\ ctx' = [ctx EXCEPT ![c] = "deadline"]
  /\ UNCHANGED <<relayVars, subVars, dispVars, histVars, pc, status, err, ret, current, events>>
  /\ UNCHANGED auxVars

\* the caller cancels the context it passed
Cancel(c) ==
  /\ InFlight(c)
  /\ ctx[c] = "live"
  /\ ctx' = [ctx EXCEPT ![c] = "cancelled"]
  /\ UNCHANGED <<relayVars, subVars, dispVars, histVars, pc, status, err, ret, current, events>>
  /\ UNCHANGED auxVars

(* ------------------------------- Publish ------------------------------- *)

\* a return path without the deferred Delete
UnregisterNothing(cbs, id) == cbs

\* defer r.okCallbacks.Delete(event.ID) (lines 282, 353)
Unregister(cbs, id) == [cbs EXCEPT ![id] = None]

\* Publish starting out as Auth does
PublishInitFailed == PublishStatusFailed

\* the status a Publish call starts with (line 251)
PublishInitStatus == PublishStatusSent

\* the status an Auth call starts with (line 322)
AuthInitStatus == PublishStatusFailed

\* return st, e: the deferred Delete and the deferred cancel run
Return(c, st, e) ==
  /\ ret' = [ret EXCEPT ![c] = [status |-> st, err |-> e, set |-> TRUE]]
  /\ pc' = [pc EXCEPT ![c] = "done"]
  /\ okCallbacks' = Unregister(okCallbacks, EventID(c))
  /\ ctx' = Cancelled(c, "ret")

\* lines 251-282: the locals and the registration of okCallback
PublishStart ==
  /\ pc["P"] = "idle"
  /\ status' = [status EXCEPT !["P"] = PublishInitStatus]
  /\ err' = [err EXCEPT !["P"] = NilErr]
  /\ okCallbacks' = [okCallbacks EXCEPT ![EventID("P")] = "P"]
  /\ pc' = [pc EXCEPT !["P"] = "write"]
  /\ UNCHANGED <<AssumeValid, subscriptions, subscriptionIdCounter, tasks>>
  /\ UNCHANGED <<subVars, dispVars, histVars, ret, ctx, current, events>>
  /\ UNCHANGED auxVars

\* lines 285-287: WriteJSON of ["EVENT", event] succeeds or fails
PublishWrite ==
  /\ pc["P"] = "write"
  /\ \/ /\ pc' = [pc EXCEPT !["P"] = "prep"]
        /\ UNCHANGED <<okCallbacks, ret, ctx, unguarded>>
     \/ /\ Return("P", status["P"], WriteErr)
        /\ unguarded' = unguarded \cup {"Publish:286"}
  /\ UNCHANGED <<AssumeValid, subscriptions, subscriptionIdCounter, tasks>>
  /\ UNCHANGED <<subVars, dispVars, histVars, status, err, current, events>>
  /\ UNCHANGED <<connVars, got>>

\* lines 292-304: an event is received from sub.Events
PublishRecv ==
  /\ pc["P"] = "wait"
  /\ Delivered("P")
  /\ IF cur.ev.id = EventID("P")
       THEN /\ status' = [status EXCEPT !["P"] = PublishStatusSucceeded]
            /\ pc' = [pc EXCEPT !["P"] = "echo"]
       ELSE UNCHANGED <<status, pc>>
  /\ UNCHANGED <<relayVars, err, ret, ctx, current, events>>
  /\ UNCHANGED <<counter, stopped, emitEose, EndOfStoredEvents, watch>>
  /\ UNCHANGED <<cbLog, routed, eoseSent, eoseFrames>>
  /\ UNCHANGED auxVars

\* line 303: return status, err after the echoed event
PublishEchoReturn ==
  /\ pc["P"] = "echo"
  /\ Return("P", status["P"], err["P"])
  /\ UNCHANGED <<AssumeValid, subscriptions, subscriptionIdCounter, tasks>>
  /\ UNCHANGED <<subVars, dispVars, histVars, status, err, current, events>>
  /\ unguarded' = unguarded \cup {"Publish:303"}
  /\ UNCHANGED <<connVars, got>>

\* lines 293-296 and 305-314: Events is closed, ctx is done, or the
\* connection context is done
PublishReturn ==
  /\ pc["P"] = "wait"
  /\ stopped["P"] \/ ctx["P"] # "live" \/ ConnectionContextDone
  /\ Return("P", status["P"], err["P"])
  /\ UNCHANGED <<AssumeValid, subscriptions, subscriptionIdCounter, tasks>>
  /\ UNCHANGED <<subVars, dispVars, histVars, status, err, current, events>>
  /\ unguarded' = unguarded \cup {"Publish:311"}
  /\ UNCHANGED <<connVars, got>>

(* ------------------------------- Connect ------------------------------- *)

URLs == {"", "wss://r"}

connRest == <<subscriptions, okCallbacks, subscriptionIdCounter, AssumeValid, tasks>>

\* lines 77-83: the connection context is created, and cancelled at once
\* when the URL is empty
ConnectBegin(url) ==
  /\ cpc \in {"idle", "done"}
  /\ IF url = ""
     THEN connCtx' = "cancelled" /\ connRet' = "err" /\ cpc' = "done"
     ELSE connCtx' = "live" /\ connRet' = connRet /\ cpc' = "dial"
  /\ UNCHANGED <<cctx, established, ticker, tickC, hb, pings, late, closed>>
  /\ UNCHANGED <<connRest, subVars, callVars, dispVars, histVars, got, unguarded>>

\* the ctx passed to Connect, or the 7 s default of lines 85-90, expires
ConnectExpire ==
  /\ cpc \in {"idle", "dial"}
  /\ cctx = "live"
  /\ cctx' = "expired"
  /\ UNCHANGED <<cpc, connRet, established, connCtx, ticker, tickC, hb, pings, late, closed>>
  /\ UNCHANGED <<connRest, subVars, callVars, dispVars, histVars, got, unguarded>>

\* lines 92-102: ws.Dial(r.URL, r.RequestHeader) takes no context and
\* returns nothing, whether the transport is connected or not
ConnectDial ==
  /\ cpc = "dial"
  /\ established' \in BOOLEAN
  /\ cpc' = "spawn"
  /\ UNCHANGED <<connRet, cctx, connCtx, ticker, tickC, hb, pings, late, closed>>
  /\ UNCHANGED <<connRest, subVars, callVars, dispVars, histVars, got, unguarded>>

\* lines 105-121: time.NewTicker, the heartbeat goroutine, the Dispatcher
ConnectSpawn ==
  /\ cpc = "spawn"
  /\ ticker' = "running"
  /\ hb' = "waiting"
  /\ dpc' = "read"
  /\ cpc' = "ret"
  /\ UNCHANGED <<connRet, cctx, established, connCtx, tickC, pings, late, closed>>
  /\ UNCHANGED <<connRest, subVars, callVars, cur, nread, budget, lastCmd, histVars, got, unguarded>>

\* line 245: return nil, and the deferred ticker.Stop() of line 106
ConnectReturn ==
  /\ cpc = "ret"
  /\ connRet' = "nil"
  /\ ticker' = "stopped"
  /\ cpc' = "done"
  /\ UNCHANGED <<cctx, established, connCtx, tickC, hb, pings, late, closed>>
  /\ UNCHANGED <<connRest, subVars, callVars, dispVars, histVars, got, unguarded>>

\* 29 seconds pass: a running ticker puts a tick in ticker.C (capacity 1),
\* a stopped one does not
Interval ==
  /\ ticker # "none"
  /\ late < MaxTicks
  /\ late' = IF cpc = "done" THEN late + 1 ELSE late
  /\ tickC' = IF ticker = "running" THEN 1 ELSE tickC
  /\ cpc = "done" \/ (tickC = 0 /\ pings < MaxTicks)
  /\ UNCHANGED <<cpc, connRet, cctx, established, connCtx, ticker, hb, pings, closed>>
  /\ UNCHANGED <<connRest, subVars, callVars, dispVars, histVars, got, unguarded>>

\* lines 107-118: case <-ticker.C, write a ping, return when the write fails
Heartbeat ==
  /\ hb = "waiting"
  /\ tickC > 0
  /\ tickC' = tickC - 1
  /\ \/ pings' = pings + 1 /\ hb' = hb
     \/ pings' = pings /\ hb' = "exited"
  /\ UNCHANGED <<cpc, connRet, cctx, established, connCtx, ticker, late, closed>>
  /\ UNCHANGED <<connRest, subVars, callVars, dispVars, histVars, got, unguarded>>

\* Relay.Close (lines 434-436): the transport is closed for good
Close ==
  /\ connRet = "nil"
  /\ ~closed
  /\ closed' = TRUE
  /\ UNCHANGED <<cpc, connRet, cctx, established, connCtx, ticker, tickC, hb, pings, late>>
  /\ UNCHANGED <<connRest, subVars, callVars, dispVars, histVars, got, unguarded>>

(* -------------------------------- Auth --------------------------------- *)

\* lines 322-353
AuthStart ==
  /\ pc["A"] = "idle"
  /\ status' = [status EXCEPT !["A"] = AuthInitStatus]
  /\ err' = [err EXCEPT !["A"] = NilErr]
  /\ okCallbacks' = [okCallbacks EXCEPT ![EventID("A")] = "A"]
  /\ pc' = [pc EXCEPT !["A"] = "write"]
  /\ UNCHANGED <<AssumeValid, subscriptions, subscriptionIdCounter, tasks>>
  /\ UNCHANGED <<subVars, dispVars, histVars, ret, ctx, current, events>>
  /\ UNCHANGED auxVars

\* lines 356-359: WriteJSON of ["AUTH", event] succeeds or fails
AuthWrite ==
  /\ pc["A"] = "write"
  /\ \/ /\ pc' = [pc EXCEPT !["A"] = "setsent"]
        /\ UNCHANGED <<okCallbacks, ret, ctx, unguarded>>
     \/ /\ Return("A", status["A"], WriteErr)
        /\ unguarded' = unguarded \cup {"Auth:358"}
  /\ UNCHANGED <<AssumeValid, subscriptions, subscriptionIdCounter, tasks>>
  /\ UNCHANGED <<subVars, dispVars, histVars, status, err, current, events>>
  /\ UNCHANGED <<connVars, got>>

\* lines 361-363: status = PublishStatusSent under mu
AuthSetSent ==
  /\ pc["A"] = "setsent"
  /\ status' = [status EXCEPT !["A"] = PublishStatusSent]
  /\ pc' = [pc EXCEPT !["A"] = "wait"]
  /\ UNCHANGED <<relayVars, subVars, dispVars, histVars, err, ret, ctx, current, events>>
  /\ UNCHANGED auxVars

\* lines 368-371: <-ctx.Done(), then return status, err under mu
AuthReturn ==
  /\ pc["A"] = "wait"
  /\ ctx["A"] # "live"
  /\ Return("A", status["A"], err["A"])
  /\ UNCHANGED <<AssumeValid, subscriptions, subscriptionIdCounter, tasks>>
  /\ UNCHANGED <<subVars, dispVars, histVars, status, err, current, events>>
  /\ UNCHANGED auxVars

(* ------------------------------ QuerySync ------------------------------ *)

\* events collected newest first
CollectFront(evs, evt) == <<evt>> \o evs

\* events = append(events, evt) (line 408)
Collect(evs, evt) == Append(evs, evt)

\* line 390: r.Subscribe(ctx, Filters{filter}) begins
QueryStart ==
  /\ pc["Q"] = "idle"
  /\ pc' = [pc EXCEPT !["Q"] = "prep"]
  /\ UNCHANGED <<relayVars, subVars, dispVars, histVars, status, err, ret, ctx, current, events>>
  /\ UNCHANGED auxVars

\* lines 403-408: an event is received from sub.Events
QueryRecv ==
  /\ pc["Q"] = "loop"
  /\ Delivered("Q")
  /\ events' = Collect(events, cur.ev)
  /\ UNCHANGED <<relayVars, pc, status, err, ret, ctx, current>>
  /\ UNCHANGED <<counter, stopped, emitEose, EndOfStoredEvents, watch>>
  /\ UNCHANGED <<cbLog, routed, eoseSent, eoseFrames>>
  /\ UNCHANGED auxVars

\* lines 409-410: a value is received from sub.EndOfStoredEvents
QueryEose ==
  /\ pc["Q"] = "loop"
  /\ EndOfStoredEvents["Q"] > 0
  /\ EndOfStoredEvents' = [EndOfStoredEvents EXCEPT !["Q"] = @ - 1]
  /\ pc' = [pc EXCEPT !["Q"] = "unsub"]
  /\ UNCHANGED <<relayVars, dispVars, histVars, status, err, ret, ctx, current, events>>
  /\ UNCHANGED <<counter, stopped, mutex, emitEose, watch>>
  /\ UNCHANGED auxVars

\* lines 404-407 and 411-412: Events is closed, or ctx is done
QueryReturn ==
  /\ pc["Q"] = "loop"
  /\ stopped["Q"] \/ ctx["Q"] # "live"
  /\ pc' = [pc EXCEPT !["Q"] = "unsub"]
  /\ UNCHANGED <<relayVars, subVars, dispVars, histVars, status, err, ret, ctx, current, events>>
  /\ UNCHANGED auxVars

\* line 391: the deferred sub.Unsub(), after which QuerySync has returned
QueryUnsub ==
  /\ pc["Q"] = "unsub"
  /\ Unsub("Q")
  /\ pc' = [pc EXCEPT !["Q"] = "done"]
  /\ UNCHANGED <<AssumeValid, okCallbacks, subscriptionIdCounter, tasks>>
  /\ UNCHANGED <<counter, mutex, emitEose, EndOfStoredEvents, watch>>
  /\ UNCHANGED <<dispVars, histVars, status, err, ret, ctx, current, events>>
  /\ UNCHANGED auxVars

(* --------------------------- specifications ---------------------------- *)

Prepare == \E c \in {"P", "Q"} : PrepareRead(c) \/ PrepareIncr(c) \/ Fire(c)
Lifetime == \E s \in Subs : LifetimeUnsub(s)
Timer == \E c \in Calls : Deadline(c)
CallerCancel == \E c \in Calls : Cancel(c)

PublishStep == PublishWrite \/ PublishRecv \/ PublishEchoReturn \/ PublishReturn
AuthStep == AuthWrite \/ AuthSetSent \/ AuthReturn
QueryStep == QueryRecv \/ QueryEose \/ QueryReturn \/ QueryUnsub

Dispatcher == ReadFrame \/ DispLock \/ Consume

\* the application calls Publish
NextPublish ==
  \/ Dispatcher
  \/ PublishStart
  \/ Prepare
  \/ PublishStep
  \/ Lifetime
  \/ Timer
  \/ CallerCancel

\* the application calls Auth: no subscription is ever registered
NextAuth ==
  \/ ReadFrame
  \/ Consume
  \/ AuthStart
  \/ AuthStep
  \/ Timer
  \/ CallerCancel

\* the application calls QuerySync
NextQuery ==
  \/ Dispatcher
  \/ QueryStart
  \/ Prepare
  \/ QueryStep
  \/ Lifetime
  \/ Timer
  \/ CallerCancel

\* the application calls Publish and Auth concurrently
NextCalls ==
  \/ Dispatcher
  \/ PublishStart
  \/ AuthStart
  \/ Prepare
  \/ PublishStep
  \/ AuthStep
  \/ Lifetime
  \/ Timer
  \/ CallerCancel

\* the application calls Publish and QuerySync concurrently
NextBoth ==
  \/ Dispatcher
  \/ PublishStart
  \/ QueryStart
  \/ Prepare
  \/ PublishStep
  \/ QueryStep
  \/ Lifetime
  \/ Timer
  \/ CallerCancel

\* the application calls Connect, later Close; the relay sends frames
FirstConnect == cpc = "idle" /\ \E url \in URLs : ConnectBegin(url)
Connect == FirstConnect \/ ConnectDial \/ ConnectSpawn \/ ConnectReturn

\* the application empties r.URL and calls Connect on the connected Relay
\* (a second Connect with a usable URL would start a second Dispatcher on
\* the same Relay and is not followed here)
EmptyReconnect == cpc = "done" /\ ConnectBegin("")

NextConnect ==
  \/ Connect
  \/ ConnectExpire
  \/ Interval
  \/ Heartbeat
  \/ Close
  \/ ReadFrame
  \/ Consume

Spec == Init /\ [][NextQuery]_vars
SpecAuth == Init /\ [][NextAuth]_vars
SpecCalls == InitCalls /\ [][NextCalls]_vars
SpecBoth == InitBoth /\ [][NextBoth]_vars
SpecConnect == InitConnect /\ [][NextConnect]_vars
SpecReconnect == Init /\ [][NextAuth \/ EmptyReconnect]_vars

\* Connect runs to its return, time passes, and the heartbeat and the
\* Dispatcher are scheduled; Close and the expiry of ctx are not forced
FairConnect ==
  /\ SpecConnect
  /\ WF_vars(Connect)
  /\ WF_vars(Interval)
  /\ WF_vars(Heartbeat)
  /\ WF_vars(ReadFrame)

\* every goroutine that can take a step is eventually scheduled; frames,
\* deadlines, cancellations and new calls are not forced to happen
FairPublish ==
  /\ Init /\ [][NextPublish]_vars
  /\ WF_vars(DispLock)
  /\ WF_vars(Prepare)
  /\ WF_vars(PublishStep)
  /\ WF_vars(Lifetime)

FairQuery ==
  /\ Spec
  /\ WF_vars(DispLock)
  /\ WF_vars(Prepare)
  /\ WF_vars(QueryStep)
  /\ WF_vars(Lifetime)

TypeOK ==
  /\ dpc \in {"off", "read", "lock", "send"}
  /\ nread \in 0..budget
  /\ \A c \in {"P", "A"} : status[c] \in {PublishStatusSent, PublishStatusFailed, PublishStatusSucceeded}
  /\ cpc \in {"idle", "dial", "spawn", "ret", "done"}
  /\ connRet \in {"none", "nil", "err"}
  /\ cctx \in {"live", "expired"}
  /\ established \in BOOLEAN
  /\ connCtx \in {"none", "live", "cancelled"}
  /\ ticker \in {"none", "running", "stopped"}
  /\ tickC \in 0..1
  /\ hb \in {"none", "waiting", "exited"}
  /\ pings \in 0..MaxTicks
  /\ late \in 0..MaxTicks
  /\ closed \in BOOLEAN

(* ------------------------------- claims -------------------------------- *)

allButDispatcher == <<relayVars, subVars, callVars, histVars>>

\* C1: once a subscription's stopped flag is true, no step delivers an event
\* on its Events stream, also when the Dispatcher had already looked the
\* subscription up for an EVENT frame before Unsub ran.
C1_NoDeliveryOnceStopped == [][\A s \in Subs : stopped[s] => recv'[s] = recv[s]]_vars

\* QuerySync is still in its loop, its subscription has been stopped, and the
\* Dispatcher is in the middle of an EVENT frame for it
C1_Witness ==
  /\ pc["Q"] = "loop"
  /\ stopped["Q"]
  /\ dpc = "lock"
  /\ cur.sub = "Q"

\* C3: at most one value is ever placed on EndOfStoredEvents, exactly one if
\* an EOSE frame arrived for the registered subscription; an EOSE frame for a
\* subscription whose signal has fired changes nothing and leaves the
\* Dispatcher reading.
C3_EoseOnce ==
  /\ [](\A s \in Subs : eoseSent[s] = IF eoseFrames[s] > 0 THEN 1 ELSE 0)
  /\ [](dpc # "eose")
  /\ [][\A s \in Subs : (emitEose[s] /\ eoseFrames'[s] # eoseFrames[s]) =>
          /\ dpc' = "read"
          /\ UNCHANGED <<relayVars, subVars, callVars, cur, cbLog, recv, routed, eoseSent>>]_vars

\* two EOSE frames were processed for QuerySync's subscription
C3_Witness == eoseFrames["Q"] >= 2 /\ eoseSent["Q"] = 1

\* the EVENT frames routed to s that pass the filter and the signature check
Deliverable(s) ==
  SelectSeq(routed[s], LAMBDA e : Match(s, e) /\ (AssumeValid \/ e.sig))

RECURSIVE IsSubseq(_, _)
IsSubseq(a, b) ==
  IF a = <<>> THEN TRUE
  ELSE IF b = <<>> THEN FALSE
  ELSE IF Head(a) = Head(b) THEN IsSubseq(Tail(a), Tail(b))
  ELSE IsSubseq(a, Tail(b))

\* C8: what is received from a subscription's Events stream, and what
\* QuerySync collects, is a subsequence of the deliverable EVENT frames of
\* that subscription in the order the Dispatcher read them.
C8_ArrivalOrder ==
  /\ \A s \in Subs : IsSubseq(recv[s], Deliverable(s))
  /\ IsSubseq(events, Deliverable("Q"))
  /\ Len(events) = Len(recv["Q"])

\* QuerySync has collected two events and a third frame was not delivered
C8_Witness == Len(events) >= 2 /\ Len(routed["Q"]) > Len(events)

\* an EVENT frame whose subscription ID is not in the table
UnknownSubFrames ==
  { f \in Frames : /\ ~f.err /\ f.typ = "text" /\ f.head = "[" /\ f.json
                   /\ Len(f.arr) >= 3
                   /\ f.arr[1] = "EVENT"
                   /\ subscriptions[f.arr[2]] = None }

\* C9: an event is delivered only if its subscription was in the table when
\* the frame was processed, the filters match, the subscription is not
\* stopped and the signature is good or the relay is AssumeValid; an EVENT
\* frame for an unknown subscription delivers nothing and the Dispatcher
\* goes on reading.
C9_DeliveryConditions ==
  /\ [](\A s \in Subs : \A i \in 1..Len(recv[s]) :
          Match(s, recv[s][i]) /\ (AssumeValid \/ recv[s][i].sig))
  /\ [](dpc = "send" =>
          ~stopped[cur.sub] /\ Match(cur.sub, cur.ev) /\ (AssumeValid \/ cur.ev.sig))
  /\ [][(dpc = "read" /\ dpc' = "lock") =>
          subscriptions[GetID(counter[cur'.sub])] = cur'.sub]_vars
  /\ [][\A f \in UnknownSubFrames : DispRead(f) =>
          dpc' = "read" /\ cur' = NoCur /\ UNCHANGED allButDispatcher]_vars

\* an untrusted relay: one event was delivered, one with a bad signature that
\* matched the filter was not
C9_Witness ==
  /\ ~AssumeValid
  /\ Len(recv["Q"]) > 0
  /\ \E i \in 1..Len(routed["Q"]) : Match("Q", routed["Q"][i]) /\ ~routed["Q"][i].sig
  /\ dpc = "read"

\* C7: once QuerySync has a reason to leave its loop, or has left it, the
\* call returns.
C7_QuerySyncReturns ==
  (\/ pc["Q"] = "unsub"
   \/ pc["Q"] = "loop" /\ (ctx["Q"] # "live" \/ EndOfStoredEvents["Q"] > 0))
    ~> (pc["Q"] = "done")

\* positions of Publish and Auth after the outbound frame was written
Written == {"prep", "incr", "fire", "wait", "echo", "setsent"}

\* C2: the okCallbacks registry holds an entry only for the event ID of a
\* call that is in flight, so it holds none for a call that has returned
\* and is empty when no call is in flight.
C2_RegistryNoLeak ==
  \A id \in AllEventIds :
    okCallbacks[id] # None =>
      /\ okCallbacks[id] \in {"P", "A"}
      /\ EventID(okCallbacks[id]) = id
      /\ InFlight(okCallbacks[id])

\* Publish returned after its callback had cancelled it, Auth returned on a
\* write failure, and the registry is empty
C2_Witness ==
  /\ pc["P"] = "done" /\ ctx["P"] = "ok"
  /\ pc["A"] = "done" /\ ret["A"].err = WriteErr
  /\ \A id \in AllEventIds : okCallbacks[id] = None

C6_AuthRejected ==
  (/\ ret["A"].set
   /\ Len(cbLog["A"]) = 1
   /\ ~cbLog["A"][1].ok
   /\ cbLog["A"][1].at \in Written)
  => (/\ ret["A"].status = PublishStatusFailed
      /\ ret["A"].err = MsgErr(cbLog["A"][1].msg))

\* the frames the Dispatcher is to drop: non-text, empty, not starting with
\* '[', undecodable, fewer than 2 elements, unknown tag, EVENT or OK with
\* fewer than 3 elements
MalformedFrames ==
  { f \in Frames :
      /\ ~f.err
      /\ f.typ # "ping"
      /\ \/ f.typ # "text"
         \/ f.head # "["
         \/ ~f.json
         \/ Len(f.arr) < 2
         \/ f.arr[1] \notin {"NOTICE", "AUTH", "EVENT", "EOSE", "OK"}
         \/ f.arr[1] \in {"EVENT", "OK"} /\ Len(f.arr) < 3 }

\* C10: processing a malformed frame changes nothing in the subscription
\* table, the subscriptions, the registry, the calls or the streams, and
\* leaves the Dispatcher reading.
C10_MalformedDropped ==
  [][\A f \in MalformedFrames : DispRead(f) =>
       dpc' = "read" /\ cur' = NoCur /\ UNCHANGED allButDispatcher]_vars

\* a frame was dropped while a subscription and a callback were registered
C10_Witness ==
  /\ lastCmd = "drop"
  /\ subscriptions["0"] = "P"
  /\ okCallbacks["p"] = "P"
  /\ okCallbacks["a"] = "A"

\* C19: the pair Publish returns is consistent whatever the order of the OK
\* callback and the echoed event: an error that carries a relay's negative
\* acknowledgement comes with status failed only, and status succeeded
\* never comes with an error (stated for the calls whose EVENT frame was
\* written: the OK callback and the echo are the only writers of status).
C19_PairConsistent ==
  (ret["P"].set /\ ret["P"].err # WriteErr) =>
    /\ ret["P"].err.kind = "msg" => ret["P"].status = PublishStatusFailed
    /\ ret["P"].status = PublishStatusSucceeded => ret["P"].err = NilErr

\* C18: after handling a frame the Dispatcher always goes on to read the
\* next one, whoever receives or does not receive from the broadcast
\* streams and from the Events stream of the routed subscription.
C18_DispatcherGoesOn == (dpc # "read") ~> (dpc = "read")

\* C12: a call whose frame could not be written has returned the write
\* error with status sent (Publish) or failed (Auth), has registered no
\* subscription, and has no entry left in okCallbacks.
C12_WriteFailure ==
  \A c \in {"P", "A"} :
    (ret[c].set /\ ret[c].err = WriteErr) =>
      /\ ret[c].status = IF c = "P" THEN PublishStatusSent ELSE PublishStatusFailed
      /\ \A id \in AllIds : subscriptions[id] # c
      /\ c \in Subs => watch[c] = "none"
      /\ okCallbacks[EventID(c)] # c

\* the values of a sequence of received items, in the order received
Vals(seq) == [i \in 1..Len(seq) |-> seq[i].val]

\* the same values in the order of the frames they came from
ByFrame(seq) ==
  [k \in 1..Len(seq) |->
     seq[CHOOSE i \in 1..Len(seq) :
           Cardinality({j \in 1..Len(seq) : seq[j].idx <= seq[i].idx}) = k].val]

\* C15: on each broadcast stream (Notices, Challenges, Errors) the values
\* are received in the order in which the Dispatcher processed the frames
\* they came from, however the delivery tasks are scheduled.
C15_BroadcastOrder == \A st \in Streams : Vals(got[st]) = ByFrame(got[st])

\* C20: in Publish and Auth every read and every write of status, by the
\* caller or by the callback, happens with the call's mutex held, the reads
\* that produce the returned status included.
C20_StatusGuarded == unguarded = {}

\* PrepareSubscription has returned a Subscription to call c
Prepared(c) ==
  \/ pc[c] \in {"fire", "wait", "echo", "loop", "unsub"}
  \/ pc[c] = "done" /\ watch[c] # "none"

\* C17: PrepareSubscription calls that run concurrently give every
\* Subscription its own counter value, and the package counter has advanced
\* by exactly one for each call.
C17_DistinctCounters ==
  /\ \A c, d \in Subs : (c # d /\ Prepared(c) /\ Prepared(d)) => counter[c] # counter[d]
  /\ subscriptionIdCounter = Cardinality({c \in Subs : Prepared(c)})

\* C11: when the context passed to Connect (or its 7 s default) has expired
\* and the transport has no connection, Connect has returned an error.
C11_ConnectExpired ==
  (cpc = "done" /\ cctx = "expired" /\ ~established) => connRet = "err"

\* C13: once the transport is closed for good and a read is still to
\* return, the Dispatcher eventually leaves its read loop and
\* ConnectionContext is cancelled.
C13_ClosedEndsDispatcher ==
  (closed /\ nread < budget) ~> (dpc = "exit" /\ connCtx = "cancelled")

\* C16: once an interval has elapsed after Connect returned nil, the
\* heartbeat writes a ping, unless an earlier ping write failed.
C16_HeartbeatPings ==
  (connRet = "nil" /\ ~closed /\ late >= 1 /\ pings = 0) ~> (pings >= 1 \/ hb = "exited")

\* C14: an Auth call that is waiting can return as soon as
\* ConnectionContext is done, without waiting for its deadline, for a
\* cancellation by the caller or for the callback.
C14_AuthUnblocked ==
  (pc["A"] = "wait" /\ ConnectionContextDone) => ENABLED AuthReturn

====
